---- MODULE Spec2Model ----
(***************************************************************************)
(* Model of huntlib/qradar.py: the QRadar client object, its constructor   *)
(* and the synchronous search() job lifecycle                              *)
(*   POST (create) -> GET status (poll loop with deadline)                 *)
(*        -> GET results (recursive retry) -> DELETE (cleanup).            *)
(* Every HTTP request is one step of the calling thread; the wall clock is *)
(* a shared counter of seconds that advances in steps of the sleep length. *)
(***************************************************************************)
EXTENDS Integers, Sequences, FiniteSets, TLC

VARIABLES ctor, ctorArgs, qradar, now, callers, jobsCreated,
          pc, search_id, submitted_at, search_start, deadline, status,
          attempt, wake, fetched, returned, outcome, reqs, delResp,
          post_status, nonterminal, search_args, query, checked_at, envelope,
          supplied

vars == <<ctor, ctorArgs, qradar, now, callers, jobsCreated,
          pc, search_id, submitted_at, search_start, deadline, status,
          attempt, wake, fetched, returned, outcome, reqs, delResp,
          post_status, nonterminal, search_args, query, checked_at, envelope,
          supplied>>

objVars == <<ctor, ctorArgs, qradar, supplied>>
callVars == <<pc, search_id, submitted_at, search_start, deadline, status,
              attempt, wake, fetched, returned, outcome, reqs, delResp,
              post_status, nonterminal, search_args, query, checked_at,
              envelope>>

(* ---------------------------- bounds --------------------------------- *)
\* the clock stops advancing at MaxTime seconds
MaxTime == 70
\* the creation request takes at most MaxPostDelay seconds
MaxPostDelay == 5
\* the clock of the two-thread specification stops at this time (seconds)
MaxThreadsTime == 15

(* ------------------------ program constants -------------------------- *)
PollSleep == 5
FetchSleep == 5
MaxAttempt == 10
SecondsPerMinute == 60
Created == 201
OK == 200

(* ---------------------------- values --------------------------------- *)
None == "None"
Threads == {"t1", "t2"}
JobNames == <<"s1", "s2">>

\* Python truthiness of an optional string argument
Truthy(x) == x /= None /\ x /= ""

UsernameValues == {None, "", "u"}
PasswordValues == {None, "", "p"}
TokenValues == {None, "", "tok"}
ProxyValues == {None, "px"}
\* self.timeout is a number of minutes, whole or fractional (num / den)
TimeoutValues == {[num |-> 0, den |-> 1], [num |-> 1, den |-> 4]}
StatusCodes == {200, 201, 500}
\* values the backend may put in the 'status' field (None: field missing)
StatusValues == {"RUNNING", "WAIT", None, "COMPLETED", "CANCELED", "ERROR"}
\* a row list is a sequence of rows; an envelope is the sequence of the
\* values of the top-level JSON mapping, in key order
RowLists == {<< >>, <<"x">>}
Envelopes == {<< >>, << << >> >>, << <<"x">> >>, << <<"x">>, << >> >>}
\* what a request can do besides returning a response
DeleteResponses == {"ok", "http_error", "exception"}

\* a piece of query text: literal text, or a number as the f-string prints
\* it (an int as digits, a float with its fractional part)
Txt(str) == [s |-> str, n |-> 0]
IntText(num) == [s |-> "int", n |-> num]
FloatText(num) == [s |-> "float", n |-> num]

\* an optional number or datetime argument: << >> is None, <<v>> is v
Absent == << >>
AqlValues == {<<Txt("SELECT * FROM events")>>,
              <<Txt("SELECT * FROM flows"), Txt("\n LIMIT "), IntText(5)>>}
\* row limits are positive integers
LimitValues == {Absent, <<10>>}
\* datetimes, by their timestamp() in seconds
StartValues == {Absent, <<100>>}
EndValues == {Absent, <<200>>}
PriorityValues == {None, "", "LOW", "NORMAL", "HIGH", "URGENT"}
SearchArgs == [aql : AqlValues, limit : LimitValues, start_time : StartValues,
               end_time : EndValues, priority : PriorityValues]
\* search(aql) with every optional argument left at its default (line 67)
DefaultArgs == [aql |-> <<Txt("SELECT * FROM events")>>, limit |-> Absent,
                start_time |-> Absent, end_time |-> Absent, priority |-> None]

\* which credentials a constructor call was given
NotSupplied == [pair |-> FALSE, token |-> FALSE]
Supplied(a) == [pair |-> Truthy(a.username) /\ Truthy(a.password),
                token |-> Truthy(a.token)]

NoArgs == [username |-> None, password |-> None, token |-> None]
NoObject == [console |-> None, proxy |-> None,
             timeout |-> [num |-> 0, den |-> 1], debug |-> FALSE,
             cleanup_results |-> FALSE, headers |-> << >>]

(* ------------------------- request records --------------------------- *)
Names(h) == {h[i][1] : i \in 1..Len(h)}

\* a header dict is a sequence of <<name, value>> pairs in insertion order
SetHeader(h, k, v) ==
    IF k \in Names(h)
    THEN [i \in 1..Len(h) |-> IF h[i][1] = k THEN <<k, v>> ELSE h[i]]
    ELSE Append(h, <<k, v>>)

_get_headers_noCopy == [alias |-> TRUE, dict |-> qradar.headers]

\* lines 64-65: a copy of the stored dict, not the stored dict itself
_get_headers == [alias |-> FALSE, dict |-> qradar.headers]

Request(method, path, id, headers, data) ==
    [method |-> method, path |-> path, id |-> id, headers |-> headers,
     data |-> data, proxy |-> qradar.proxy]

Count(s, P(_)) == Cardinality({i \in 1..Len(s) : P(s[i])})
IsPost(r) == r.method = "POST"
IsStatus(r) == r.method = "GET" /\ r.path = "status"
IsResults(r) == r.method = "GET" /\ r.path = "results"
IsDelete(r) == r.method = "DELETE"

(* ---------------------------- Init ----------------------------------- *)
InitCalls ==
    /\ pc = [t \in Threads |-> "idle"]
    /\ search_id = [t \in Threads |-> None]
    /\ submitted_at = [t \in Threads |-> 0]
    /\ search_start = [t \in Threads |-> 0]
    /\ deadline = [t \in Threads |-> 0]
    /\ status = [t \in Threads |-> "unset"]
    /\ attempt = [t \in Threads |-> 0]
    /\ wake = [t \in Threads |-> 0]
    /\ fetched = [t \in Threads |-> << >>]
    /\ returned = [t \in Threads |-> << >>]
    /\ outcome = [t \in Threads |-> "none"]
    /\ reqs = [t \in Threads |-> << >>]
    /\ delResp = [t \in Threads |-> "none"]
    /\ post_status = [t \in Threads |-> 0]
    /\ nonterminal = [t \in Threads |-> 0]
    /\ query = [t \in Threads |-> << >>]
    /\ checked_at = [t \in Threads |-> 0]
    /\ envelope = [t \in Threads |-> << >>]

Init ==
    /\ ctor = "none"
    /\ ctorArgs = NoArgs
    /\ qradar = NoObject
    /\ supplied = NotSupplied
    /\ now = 0
    /\ callers = {"t1"}
    /\ jobsCreated = 0
    /\ search_args = [t \in Threads |-> DefaultArgs]
    /\ InitCalls

(* ------------------------- QRadar.__init__ --------------------------- *)
HasBasic_either(username, password) == Truthy(username) \/ Truthy(password)

\* line 52: basic auth is chosen when both username and password are truthy
HasBasic(username, password) == Truthy(username) /\ Truthy(password)

\* line 55
HasToken(token) == Truthy(token)

\* the caller invokes QRadar(...): the arguments are bound (lines 22-29)
CallInit ==
    /\ ctor = "none"
    /\ \E u \in UsernameValues, p \in PasswordValues, k \in TokenValues :
          ctorArgs' = [username |-> u, password |-> p, token |-> k]
    /\ ctor' = "running"
    /\ UNCHANGED <<qradar, supplied, now, callers, jobsCreated>>
    /\ UNCHANGED callVars

InitHeaders_both(a) ==
    <<<<"Accept", "application/json">>>>
       \o (IF HasBasic(a.username, a.password)
           THEN <<<<"username", a.username>>, <<"password", a.password>>>>
           ELSE << >>)
       \o (IF HasToken(a.token) THEN <<<<"SEC", a.token>>>> ELSE << >>)

\* the headers built at lines 51-56
InitHeaders(a) ==
    IF HasBasic(a.username, a.password)
    THEN <<<<"Accept", "application/json">>,
           <<"username", a.username>>, <<"password", a.password>>>>
    ELSE <<<<"Accept", "application/json">>, <<"SEC", a.token>>>>

\* body of __init__ (lines 44-58); on return the arguments go out of scope
InitBody ==
    /\ ctor = "running"
    /\ IF HasBasic(ctorArgs.username, ctorArgs.password) \/ HasToken(ctorArgs.token)
       THEN /\ \E px \in ProxyValues, tm \in TimeoutValues,
                  dbg \in BOOLEAN, cl \in BOOLEAN :
                 qradar' = [console |-> "console", proxy |-> px, timeout |-> tm,
                            debug |-> dbg, cleanup_results |-> cl,
                            headers |-> InitHeaders(ctorArgs)]
            /\ ctor' = "ok"
            /\ ctorArgs' = NoArgs
       ELSE /\ ctor' = "raised"
            /\ UNCHANGED <<qradar, ctorArgs>>
    /\ supplied' = Supplied(ctorArgs)
    /\ UNCHANGED <<now, callers, jobsCreated>>
    /\ UNCHANGED callVars

(* ------------------------------ clock -------------------------------- *)
\* time.time() is read only inside search() (lines 98, 100, 102), so the
\* clock is advanced only while some call is in progress
Tick ==
    /\ now < MaxTime
    /\ \E t \in Threads : pc[t] \notin {"idle", "post", "done"}
    /\ \A t \in Threads : pc[t] = "anchor" => now - submitted_at[t] < MaxPostDelay
    /\ now' = now + PollSleep
    /\ UNCHANGED <<ctor, ctorArgs, qradar, supplied, callers, jobsCreated>>
    /\ UNCHANGED callVars

(* --------------------------- QRadar.search --------------------------- *)
\* an exception (or the return) leaves search(): the call is over
Raise(t, err) ==
    /\ pc' = [pc EXCEPT ![t] = "done"]
    /\ outcome' = [outcome EXCEPT ![t] = err]

Send(t, r) == reqs' = [reqs EXCEPT ![t] = Append(@, r)]

\* Python truthiness of an optional number or datetime
Given(x) == x /= Absent /\ x[1] /= 0

\* lines 83-84
LimitClause(a) ==
    IF Given(a.limit) THEN <<Txt("\n LIMIT "), IntText(a.limit[1])>> ELSE << >>

\* lines 85-88: start_epoch is a float, end_epoch is truncated to an int and
\* falls back to the current time
TimeClause(a, clock) ==
    IF a.start_time /= Absent
    THEN <<Txt("\n START "), FloatText(a.start_time[1] * 1000), Txt(" STOP "),
           IntText(IF a.end_time /= Absent THEN a.end_time[1] * 1000 ELSE clock * 1000)>>
    ELSE << >>

ValidPriority_any(p) == TRUE

\* line 89, second operand
ValidPriority(p) == p \in {"LOW", "NORMAL", "HIGH"}

\* lines 89-90
PriorityClause(a) ==
    IF Truthy(a.priority) /\ ValidPriority(a.priority)
    THEN <<Txt("\n PARAMETERS PRIORITY='"), Txt(a.priority), Txt("'")>>
    ELSE << >>

ComposeQuery_priorityFirst(a, clock) ==
    a.aql \o PriorityClause(a) \o LimitClause(a) \o TimeClause(a, clock)

\* lines 82-90
ComposeQuery(a, clock) ==
    a.aql \o LimitClause(a) \o TimeClause(a, clock) \o PriorityClause(a)

\* the caller invokes search() (lines 67-93)
CallSearch(t) ==
    /\ ctor = "ok"
    /\ t \in callers
    /\ pc[t] = "idle"
    /\ pc' = [pc EXCEPT ![t] = "post"]
    /\ query' = [query EXCEPT ![t] = ComposeQuery(search_args[t], now)]
    /\ UNCHANGED <<search_args, checked_at, envelope>>
    /\ UNCHANGED <<now, callers, jobsCreated, search_id, submitted_at,
                   search_start, deadline, status, attempt, wake, fetched,
                   returned, outcome, reqs, delResp, post_status, nonterminal>>
    /\ UNCHANGED objVars

StartFailed_serverErrorsOnly(code) == code >= 400

\* line 140
StartFailed(code) == code /= Created

\* _start_search (lines 134-143), called at line 94
StartSearch(t) ==
    /\ pc[t] = "post"
    /\ LET headers == _get_headers
           posted == SetHeader(headers.dict, "Content-Type",
                               "application/x-www-form-urlencoded")
       IN /\ Send(t, Request("POST", "searches", None, posted, query[t]))
          \* line 137 writes into the stored dict only if headers is that dict
          /\ qradar' = IF headers.alias
                       THEN [qradar EXCEPT !.headers = posted]
                       ELSE qradar
    /\ submitted_at' = [submitted_at EXCEPT ![t] = now]
    /\ \/ \* requests.post raises
          /\ Raise(t, "RequestException")
          /\ UNCHANGED <<jobsCreated, search_id, post_status>>
       \/ \E code \in StatusCodes :
            /\ post_status' = [post_status EXCEPT ![t] = code]
            /\ IF StartFailed(code)
               THEN /\ Raise(t, "CannotStartSearch")
                    /\ UNCHANGED <<jobsCreated, search_id>>
               ELSE /\ jobsCreated < Len(JobNames)
                    /\ jobsCreated' = jobsCreated + 1
                    /\ search_id' = [search_id EXCEPT ![t] = JobNames[jobsCreated + 1]]
                    /\ pc' = [pc EXCEPT ![t] = "anchor"]
                    /\ UNCHANGED outcome
    /\ UNCHANGED <<now, callers, search_start, deadline, status, attempt, wake,
                   fetched, returned, delResp, nonterminal>>
    /\ UNCHANGED <<ctor, ctorArgs, supplied, search_args, query, checked_at,
                   envelope>>

\* lines 98-99
Anchor(t) ==
    /\ pc[t] = "anchor"
    /\ search_start' = [search_start EXCEPT ![t] = now]
    /\ deadline' = [deadline EXCEPT ![t] =
                       now + (qradar.timeout.num * SecondsPerMinute) \div qradar.timeout.den]
    /\ pc' = [pc EXCEPT ![t] = "loop"]
    /\ UNCHANGED <<now, callers, jobsCreated, search_id, submitted_at, status,
                   attempt, wake, fetched, returned, outcome, reqs, delResp,
                   post_status, nonterminal>>
    /\ UNCHANGED objVars
    /\ UNCHANGED <<search_args, query, checked_at, envelope>>

LoopCond_inclusive(t) == now <= deadline[t]

\* the while condition at line 100
LoopCond(t) == now < deadline[t]

LoopCheck(t) ==
    /\ pc[t] = "loop"
    /\ pc' = [pc EXCEPT ![t] = IF LoopCond(t) THEN "poll" ELSE "timeout_delete"]
    /\ UNCHANGED <<now, callers, jobsCreated, search_id, submitted_at,
                   search_start, deadline, status, attempt, wake, fetched,
                   returned, outcome, reqs, delResp, post_status, nonterminal>>
    /\ checked_at' = [checked_at EXCEPT ![t] = now]
    /\ UNCHANGED objVars
    /\ UNCHANGED <<search_args, query, envelope>>

IsFailed_errorOnly(s) == s = "ERROR"

IsFailed_orMissing(s) == s = "CANCELED" \/ s = "ERROR" \/ s = None

\* line 103
IsFailed(s) == s = "CANCELED" \/ s = "ERROR"

IsCompleted_orWait(s) == s = "COMPLETED" \/ s = "WAIT"

\* line 105
IsCompleted(s) == s = "COMPLETED"

\* one loop iteration: _get_status (lines 145-151) and lines 101-107
GetStatus(t) ==
    /\ pc[t] = "poll"
    /\ Send(t, Request("GET", "status", search_id[t], _get_headers.dict, << >>))
    /\ \/ \* requests.get or resp.json() raises
          /\ Raise(t, "RequestException")
          /\ status' = [status EXCEPT ![t] = "raised"]
          /\ UNCHANGED <<attempt, wake, nonterminal>>
       \/ \E s \in StatusValues :
            /\ status' = [status EXCEPT ![t] = s]
            /\ IF IsFailed(s)
               THEN /\ Raise(t, "SearchDidNotFinish")
                    /\ UNCHANGED <<attempt, wake, nonterminal>>
               ELSE IF IsCompleted(s)
               THEN /\ pc' = [pc EXCEPT ![t] = "results"]
                    /\ attempt' = [attempt EXCEPT ![t] = 0]
                    /\ UNCHANGED <<outcome, wake, nonterminal>>
               ELSE /\ pc' = [pc EXCEPT ![t] = "sleep_poll"]
                    /\ wake' = [wake EXCEPT ![t] = now + PollSleep]
                    /\ nonterminal' = [nonterminal EXCEPT ![t] = @ + 1]
                    /\ UNCHANGED <<outcome, attempt>>
    /\ UNCHANGED <<now, callers, jobsCreated, search_id, submitted_at,
                   search_start, deadline, fetched, returned, delResp, post_status>>
    /\ checked_at' = [checked_at EXCEPT ![t] = 0]
    /\ UNCHANGED objVars
    /\ UNCHANGED <<search_args, query, envelope>>

\* time.sleep(5) at line 107 returns
WakePoll(t) ==
    /\ pc[t] = "sleep_poll"
    /\ now >= wake[t]
    /\ pc' = [pc EXCEPT ![t] = "loop"]
    /\ wake' = [wake EXCEPT ![t] = 0]
    /\ UNCHANGED <<now, callers, jobsCreated, search_id, submitted_at,
                   search_start, deadline, status, attempt, fetched, returned,
                   outcome, reqs, delResp, post_status, nonterminal>>
    /\ UNCHANGED objVars
    /\ UNCHANGED <<search_args, query, checked_at, envelope>>

\* _delete (lines 176-179): the response is ignored, an exception propagates
DeleteRaises(resp) == resp = "exception"

TimeoutDelete_noRaise(t) ==
    /\ pc[t] = "timeout_delete"
    /\ Send(t, Request("DELETE", "search", search_id[t], _get_headers.dict, << >>))
    /\ \E d \in DeleteResponses :
         /\ delResp' = [delResp EXCEPT ![t] = d]
         /\ IF DeleteRaises(d)
            THEN Raise(t, "RequestException")
            ELSE pc' = [pc EXCEPT ![t] = "results"] /\ UNCHANGED outcome
    /\ checked_at' = [checked_at EXCEPT ![t] = 0]
    /\ UNCHANGED <<now, callers, jobsCreated, search_id, submitted_at,
                   search_start, deadline, status, attempt, wake, fetched,
                   returned, post_status, nonterminal>>
    /\ UNCHANGED objVars
    /\ UNCHANGED <<search_args, query, envelope>>

\* the else branch of the loop, lines 109-110
TimeoutDelete(t) ==
    /\ pc[t] = "timeout_delete"
    /\ Send(t, Request("DELETE", "search", search_id[t], _get_headers.dict, << >>))
    /\ \E d \in DeleteResponses :
         /\ delResp' = [delResp EXCEPT ![t] = d]
         /\ IF DeleteRaises(d)
            THEN Raise(t, "RequestException")
            ELSE Raise(t, "SearchTimedOut")
    /\ UNCHANGED <<now, callers, jobsCreated, search_id, submitted_at,
                   search_start, deadline, status, attempt, wake, fetched,
                   returned, post_status, nonterminal>>
    /\ checked_at' = [checked_at EXCEPT ![t] = 0]
    /\ UNCHANGED objVars
    /\ UNCHANGED <<search_args, query, envelope>>

MayRetry_untilDeadline(a) ==
    a <= MaxAttempt /\ \A t \in Threads : pc[t] = "results" => now < deadline[t]

MayRetry_always(a) == TRUE

\* line 166
MayRetry(a) == a <= MaxAttempt

NeedsCleanup_always == TRUE

NeedsCleanup_never == FALSE

\* line 115
NeedsCleanup == qradar.cleanup_results

FirstValue_last(body) == IF body = << >> THEN None ELSE body[Len(body)]

\* line 174: the first value of the mapping; None stands for the IndexError
FirstValue(body) == IF body = << >> THEN None ELSE Head(body)

\* one invocation of _get_results (lines 153-174) up to its sleep, and on
\* success the return to search() at lines 113-118 when no cleanup is due
GetResults(t) ==
    /\ pc[t] = "results"
    /\ Send(t, Request("GET", "results", search_id[t], _get_headers.dict, << >>))
    /\ \/ \* requests.get or resp.json() raises
          /\ Raise(t, "RequestException")
          /\ UNCHANGED <<wake, fetched, returned, envelope>>
       \/ \E code \in StatusCodes :
            /\ code /= OK
            /\ IF MayRetry(attempt[t])
               THEN /\ pc' = [pc EXCEPT ![t] = "sleep_fetch"]
                    /\ wake' = [wake EXCEPT ![t] = now + FetchSleep]
                    /\ UNCHANGED outcome
               ELSE /\ Raise(t, "CouldNotLoadResults")
                    /\ UNCHANGED wake
            /\ UNCHANGED <<fetched, returned, envelope>>
       \/ \E body \in Envelopes :
            \* status code 200: resp.json() is the envelope
            /\ envelope' = [envelope EXCEPT ![t] = <<body>>]
            /\ IF body = << >>
               THEN /\ Raise(t, "IndexError")
                    /\ UNCHANGED <<wake, fetched, returned>>
               ELSE /\ fetched' = [fetched EXCEPT ![t] = <<FirstValue(body)>>]
                    /\ IF NeedsCleanup
                       THEN /\ pc' = [pc EXCEPT ![t] = "cleanup_delete"]
                            /\ UNCHANGED <<outcome, returned>>
                       ELSE /\ Raise(t, "returned")
                            /\ returned' = [returned EXCEPT ![t] = <<FirstValue(body)>>]
                    /\ UNCHANGED wake
    /\ UNCHANGED <<now, callers, jobsCreated, search_id, submitted_at,
                   search_start, deadline, status, attempt, delResp,
                   post_status, nonterminal>>
    /\ UNCHANGED objVars
    /\ UNCHANGED <<search_args, query, checked_at>>

\* time.sleep(5) at line 167 returns and line 168 recurses
WakeFetch(t) ==
    /\ pc[t] = "sleep_fetch"
    /\ now >= wake[t]
    /\ attempt' = [attempt EXCEPT ![t] = @ + 1]
    /\ pc' = [pc EXCEPT ![t] = "results"]
    /\ wake' = [wake EXCEPT ![t] = 0]
    /\ UNCHANGED <<now, callers, jobsCreated, search_id, submitted_at,
                   search_start, deadline, status, fetched, returned, outcome,
                   reqs, delResp, post_status, nonterminal>>
    /\ UNCHANGED objVars
    /\ UNCHANGED <<search_args, query, checked_at, envelope>>

\* lines 115-118 with cleanup_results set
CleanupDelete(t) ==
    /\ pc[t] = "cleanup_delete"
    /\ Send(t, Request("DELETE", "search", search_id[t], _get_headers.dict, << >>))
    /\ \E d \in DeleteResponses :
         /\ delResp' = [delResp EXCEPT ![t] = d]
         /\ IF DeleteRaises(d)
            THEN /\ Raise(t, "RequestException")
                 /\ UNCHANGED returned
            ELSE /\ Raise(t, "returned")
                 /\ returned' = [returned EXCEPT ![t] = fetched[t]]
    /\ UNCHANGED <<now, callers, jobsCreated, search_id, submitted_at,
                   search_start, deadline, status, attempt, wake, fetched,
                   post_status, nonterminal>>
    /\ UNCHANGED objVars
    /\ UNCHANGED <<search_args, query, checked_at, envelope>>

Next ==
    \/ CallInit
    \/ InitBody
    \/ Tick
    \/ \E t \in Threads : CallSearch(t)
    \/ \E t \in Threads : StartSearch(t)
    \/ \E t \in Threads : Anchor(t)
    \/ \E t \in Threads : LoopCheck(t)
    \/ \E t \in Threads : GetStatus(t)
    \/ \E t \in Threads : WakePoll(t)
    \/ \E t \in Threads : TimeoutDelete(t)
    \/ \E t \in Threads : GetResults(t)
    \/ \E t \in Threads : WakeFetch(t)
    \/ \E t \in Threads : CleanupDelete(t)

Spec == Init /\ [][Next]_vars

(* ------- the calls under a clock that advances while they sleep ------- *)
Sleeping(t) == pc[t] \in {"sleep_poll", "sleep_fetch"}

\* the time of a time.sleep(5) passes (lines 107, 167); requests take no time
TickSleep ==
    /\ now < MaxTime
    /\ \E t \in Threads : Sleeping(t) /\ now < wake[t]
    /\ now' = now + PollSleep
    /\ UNCHANGED <<ctor, ctorArgs, qradar, supplied, callers, jobsCreated>>
    /\ UNCHANGED callVars

\* the steps of a running call
CallStep(t) ==
    \/ StartSearch(t)
    \/ Anchor(t)
    \/ LoopCheck(t)
    \/ GetStatus(t)
    \/ WakePoll(t)
    \/ TimeoutDelete(t)
    \/ GetResults(t)
    \/ WakeFetch(t)
    \/ CleanupDelete(t)

NextLive ==
    \/ CallInit
    \/ InitBody
    \/ TickSleep
    \/ \E t \in Threads : CallSearch(t)
    \/ \E t \in Threads : CallStep(t)

\* every request returns (or raises) and the clock advances
Fairness ==
    /\ WF_vars(TickSleep)
    /\ \A t \in Threads : WF_vars(CallStep(t))

SpecLive == Init /\ [][NextLive]_vars /\ Fairness

(* -------- search() up to the creation request, over its arguments ------ *)
\* a constructed object (token auth, defaults of lines 26-29 except timeout)
ConstructedObject ==
    [console |-> "console", proxy |-> None, timeout |-> [num |-> 1, den |-> 4],
     debug |-> FALSE, cleanup_results |-> TRUE,
     headers |-> <<<<"Accept", "application/json">>, <<"SEC", "tok">>>>]

InitCompose ==
    /\ ctor = "ok"
    /\ ctorArgs = NoArgs
    /\ qradar = ConstructedObject
    /\ supplied = [pair |-> FALSE, token |-> TRUE]
    /\ now = 0
    /\ callers = {"t1"}
    /\ jobsCreated = 0
    /\ \E a \in SearchArgs :
          search_args = [t \in Threads |-> IF t = "t1" THEN a ELSE DefaultArgs]
    /\ InitCalls

NextCompose ==
    \/ \E t \in Threads : CallSearch(t)
    \/ \E t \in Threads : StartSearch(t)

SpecCompose == InitCompose /\ [][NextCompose]_vars

(* ------------- two calls on one object from two threads -------------- *)
InitThreads ==
    /\ ctor = "ok"
    /\ ctorArgs = NoArgs
    /\ qradar = ConstructedObject
    /\ supplied = [pair |-> FALSE, token |-> TRUE]
    /\ now = 0
    /\ callers = Threads
    /\ jobsCreated = 0
    /\ search_args = [t \in Threads |-> DefaultArgs]
    /\ InitCalls

\* the time of a time.sleep(5) passes (lines 107, 167), up to MaxThreadsTime
TickThreads ==
    /\ now < MaxThreadsTime
    /\ \E t \in Threads : Sleeping(t) /\ now < wake[t]
    /\ now' = now + PollSleep
    /\ UNCHANGED <<ctor, ctorArgs, qradar, supplied, callers, jobsCreated>>
    /\ UNCHANGED callVars

NextThreads ==
    \/ TickThreads
    \/ \E t \in Threads : CallSearch(t)
    \/ \E t \in Threads : CallStep(t)

SpecThreads == InitThreads /\ [][NextThreads]_vars

TypeOK ==
    /\ ctor \in {"none", "running", "ok", "raised"}
    /\ now \in 0..(MaxTime + PollSleep)
    /\ \A t \in Threads : attempt[t] \in 0..(MaxAttempt + 1)
    /\ \A t \in Threads : wake[t] \in 0..(MaxTime + 2 * PollSleep)

(* ===================================================================== *)
(* Properties                                                            *)
(* ===================================================================== *)
Last(s) == s[Len(s)]
Ended(t) == pc[t] = "done"
JobCreated(t) == search_id[t] /= None
Polls(t) == Count(reqs[t], IsStatus)
Fetches(t) == Count(reqs[t], IsResults)
Deletes(t) == Count(reqs[t], IsDelete)
\* the last request of the call is the DELETE of the call's own job
EndsWithOwnDelete(t) ==
    /\ reqs[t] /= << >>
    /\ IsDelete(Last(reqs[t]))
    /\ Last(reqs[t]).id = search_id[t]
TerminalStatuses == {"COMPLETED", "CANCELED", "ERROR"}
\* every poll of the call returned, and returned a non-terminal status
OnlyRunningSeen(t) == status[t] \notin TerminalStatuses \cup {"raised"}
RowsFetched(t) == fetched[t] /= << >>

\* C1: a call whose job was created and whose polls (at least one) all
\* returned a non-terminal status ends with the timed-out error, with exactly one
\* DELETE for its job as its last request and without any results request.
C1_TimeoutDeletesOnceThenRaises ==
    \A t \in Threads :
       (Ended(t) /\ JobCreated(t) /\ OnlyRunningSeen(t) /\ nonterminal[t] >= 1) =>
          /\ outcome[t] = "SearchTimedOut"
          /\ Deletes(t) = 1
          /\ EndsWithOwnDelete(t)
          /\ Fetches(t) = 0

\* C2: once a poll has returned CANCELED or ERROR the call is over with the
\* job-failed error; that poll was poll number k+1 after k non-terminal
\* statuses and it is the last request: no results and no DELETE request.
C2_FailedStatusRaisesImmediately ==
    \A t \in Threads :
       status[t] \in {"CANCELED", "ERROR"} =>
          /\ Ended(t)
          /\ outcome[t] = "SearchDidNotFinish"
          /\ Polls(t) = nonterminal[t] + 1
          /\ IsStatus(Last(reqs[t]))
          /\ Len(reqs[t]) = 1 + Polls(t)
          /\ Fetches(t) = 0
          /\ Deletes(t) = 0

C2_Witness ==
    /\ status["t1"] = "CANCELED"
    /\ nonterminal["t1"] = 2
    /\ Polls("t1") = 3
    /\ Ended("t1")

\* C3: when a poll returns COMPLETED after n non-terminal statuses the loop
\* is left after exactly n+1 polls and the request that follows the polls is
\* the results request; no results request exists without a COMPLETED poll.
C3_CompletedEndsLoopThenFetches ==
    \A t \in Threads :
       /\ status[t] = "COMPLETED" =>
             /\ Polls(t) = nonterminal[t] + 1
             /\ pc[t] \notin {"loop", "poll", "sleep_poll", "timeout_delete"}
             /\ \A i \in 2..(Polls(t) + 1) : IsStatus(reqs[t][i])
             /\ IF Len(reqs[t]) = Polls(t) + 1
                THEN pc[t] = "results"
                ELSE IsResults(reqs[t][Polls(t) + 2])
       /\ Fetches(t) > 0 => status[t] = "COMPLETED"

C3_Witness ==
    /\ status["t1"] = "COMPLETED"
    /\ nonterminal["t1"] = 2
    /\ Polls("t1") = 3
    /\ Len(reqs["t1"]) = 5
    /\ IsResults(reqs["t1"][5])

\* C4: the results request is issued at most 11 times (1 initial request
\* plus 10 retries) and the fetch-failed error is raised after exactly 11.
C4_FetchFailedAfterElevenRequests ==
    \A t \in Threads :
       /\ Fetches(t) <= 1 + MaxAttempt
       /\ outcome[t] = "CouldNotLoadResults" => Fetches(t) = 1 + MaxAttempt

\* C5: when the k-th results request (k within the budget of 11) returns 200
\* with rows, it is the last results request and search() returns those rows.
C5_RowsOfKthResponseReturned ==
    \A t \in Threads :
       (Ended(t) /\ RowsFetched(t) /\ Fetches(t) <= 1 + MaxAttempt) =>
          /\ outcome[t] = "returned"
          /\ returned[t] = fetched[t]

\* C6: once the results are fetched, a call issues exactly one DELETE for
\* its job when cleanup_results is true and none when it is false; the
\* DELETE directly follows the successful results request and precedes the
\* end of the call.
C6_CleanupDeleteOnSuccessPath ==
    \A t \in Threads :
       /\ (Ended(t) /\ RowsFetched(t)) =>
             Deletes(t) = (IF qradar.cleanup_results THEN 1 ELSE 0)
       /\ (RowsFetched(t) /\ Deletes(t) > 0) =>
             /\ Deletes(t) = 1
             /\ EndsWithOwnDelete(t)
             /\ IsResults(reqs[t][Len(reqs[t]) - 1])
       /\ outcome[t] = "returned" => RowsFetched(t)
       /\ (RowsFetched(t) /\ ~Ended(t)) => (pc[t] = "cleanup_delete" /\ Deletes(t) = 0)

C6_Witness ==
    /\ outcome["t1"] = "returned"
    /\ qradar.cleanup_results
    /\ Deletes("t1") = 1
    /\ Fetches("t1") = 3

\* C7: a failed DELETE (error status or exception) does not change the
\* outcome: rows are still returned on the success path and the timed-out
\* error is still raised on the timeout path.
C7_DeleteFailureSwallowed ==
    \A t \in Threads :
       (Ended(t) /\ delResp[t] \in {"http_error", "exception"}) =>
          IF RowsFetched(t)
          THEN outcome[t] = "returned" /\ returned[t] = fetched[t]
          ELSE outcome[t] = "SearchTimedOut"

\* the exits the claim lists: rows returned, job failed, timed out, fetch
\* retry budget exhausted, malformed results
ListedExits == {"returned", "SearchDidNotFinish", "SearchTimedOut",
                "CouldNotLoadResults", "IndexError"}

\* C8 as stated: with cleanup enabled every call that created a job and
\* ended by one of the listed exits has issued a DELETE for that job.
C8_EveryExitDeletes ==
    \A t \in Threads :
       (Ended(t) /\ JobCreated(t) /\ qradar.cleanup_results
          /\ outcome[t] \in ListedExits) =>
          (Deletes(t) >= 1 /\ EndsWithOwnDelete(t))

\* C8 as amended: with cleanup enabled an ended call that created a job has
\* issued a DELETE for it (exactly one, as its last request) exactly when it
\* returned rows, raised the timed-out error or ended by an exception of the
\* DELETE request itself; on every other exit it has issued no DELETE.
C8_DeleteOnlyOnReturnOrTimeout ==
    \A t \in Threads :
       (Ended(t) /\ JobCreated(t) /\ qradar.cleanup_results) =>
          IF outcome[t] \in {"returned", "SearchTimedOut"} \/ delResp[t] = "exception"
          THEN Deletes(t) = 1 /\ EndsWithOwnDelete(t)
          ELSE Deletes(t) = 0

C8_Witness ==
    /\ Ended("t1")
    /\ JobCreated("t1")
    /\ qradar.cleanup_results
    /\ outcome["t1"] = "CouldNotLoadResults"
    /\ Deletes("t1") = 0

\* C9: a creation response other than 201 ends the call with the
\* submission-failed error after exactly one POST and no other request.
C9_SubmissionFailureIsFatal ==
    \A t \in Threads :
       /\ post_status[t] \notin {0, Created} =>
             /\ Ended(t)
             /\ outcome[t] = "CannotStartSearch"
             /\ Len(reqs[t]) = 1
             /\ IsPost(reqs[t][1])
       /\ outcome[t] = "CannotStartSearch" => post_status[t] \notin {0, Created}
       /\ Count(reqs[t], IsPost) <= 1

C9_Witness ==
    /\ post_status["t1"] = 500
    /\ outcome["t1"] = "CannotStartSearch"
    /\ Len(reqs["t1"]) = 1

NoRequests == \A t \in Threads : reqs[t] = << >> /\ pc[t] = "idle"
\* neither a complete (username, password) pair nor a token was passed
NoCredentials(a) == (a.username = None \/ a.password = None) /\ a.token = None

\* C10: a constructor call without a complete (username, password) pair and
\* without a token ends by raising, and no request is ever made.
C10_NoCredentialsRaises ==
    [][/\ (ctor = "running" /\ NoCredentials(ctorArgs)) =>
             (ctor' = "raised" /\ NoRequests')
       /\ ctor = "raised" => (ctor' = "raised" /\ NoRequests')]_vars

C10_Witness ==
    /\ ctor = "raised"
    /\ ctorArgs.username = "u"
    /\ ctorArgs.password = None
    /\ ctorArgs.token = None
    /\ NoRequests

(* ------------------------- query composition -------------------------- *)
\* the query text the call submitted: the form field of its POST
Submitted(t) == reqs[t][1].data
HasPosted(t) == reqs[t] /= << >> /\ IsPost(reqs[t][1])
B(cond) == IF cond THEN 1 ELSE 0
LimitKeyword == "\n LIMIT "
StartKeyword == "\n START "
PriorityKeyword == "\n PARAMETERS PRIORITY='"
DocumentedPriorities == {"LOW", "NORMAL", "HIGH"}

\* C11: the submitted text is the base text, then a LIMIT clause iff a limit
\* was passed, then a START/STOP clause iff a start time was passed, then a
\* PRIORITY clause iff a documented priority was passed, and nothing else.
C11_ClausesInFixedOrder ==
    \A t \in Threads :
       HasPosted(t) =>
          LET a == search_args[t]
              q == Submitted(t)
              n == Len(a.aql)
              hasL == a.limit /= Absent
              hasT == a.start_time /= Absent
              hasP == a.priority \in DocumentedPriorities
              iT == n + 2 * B(hasL)
              iP == iT + 4 * B(hasT)
          IN /\ Len(q) = iP + 3 * B(hasP)
             /\ SubSeq(q, 1, n) = a.aql
             /\ hasL => /\ q[n + 1].s = LimitKeyword
                        /\ q[n + 2].s = "int" /\ q[n + 2].n = a.limit[1]
             /\ hasT => /\ q[iT + 1].s = StartKeyword
                        /\ q[iT + 2].n = a.start_time[1] * 1000
                        /\ q[iT + 3].s = " STOP "
                        /\ q[iT + 4].s = "int"
                        /\ a.end_time /= Absent => q[iT + 4].n = a.end_time[1] * 1000
             /\ hasP => /\ q[iP + 1].s = PriorityKeyword
                        /\ q[iP + 2].s = a.priority
                        /\ q[iP + 3].s = "'"

C11_Witness ==
    /\ HasPosted("t1")
    /\ search_args["t1"].limit /= Absent
    /\ search_args["t1"].start_time /= Absent
    /\ search_args["t1"].end_time = Absent
    /\ search_args["t1"].priority = "HIGH"
    /\ Len(Submitted("t1")) = Len(search_args["t1"].aql) + 9

\* C12: a priority outside LOW/NORMAL/HIGH raises nothing and adds no
\* clause: the call reaches its POST, the submitted text has no PRIORITY
\* clause, and without limit and start time it is the base text.
C12_UnknownPriorityDropped ==
    \A t \in Threads :
       LET a == search_args[t]
       IN (a.priority \notin DocumentedPriorities \cup {None} /\ pc[t] /= "idle") =>
             /\ pc[t] = "done" => HasPosted(t)
             /\ outcome[t] \in {"none", "RequestException", "CannotStartSearch"}
             /\ \A i \in 1..Len(query[t]) :
                   i > Len(a.aql) => query[t][i].s /= PriorityKeyword
             /\ HasPosted(t) =>
                   /\ Submitted(t) = query[t]
                   /\ (a.limit = Absent /\ a.start_time = Absent) => Submitted(t) = a.aql

C12_Witness ==
    /\ search_args["t1"].priority = "URGENT"
    /\ search_args["t1"].limit = Absent
    /\ search_args["t1"].start_time = Absent
    /\ post_status["t1"] = Created
    /\ Submitted("t1") = search_args["t1"].aql

(* ------------------------ result materialisation ---------------------- *)
EmptyEnvelope == << << >> >>

\* C13: a 200 response with an empty envelope ends the search with the
\* error of the first-value access and nothing is returned; with a non-empty
\* envelope the row list taken (and returned, if the call returns) is the
\* first value of the mapping.
C13_EmptyEnvelopeRaises ==
    \A t \in Threads :
       /\ envelope[t] = EmptyEnvelope =>
             /\ Ended(t)
             /\ outcome[t] = "IndexError"
             /\ returned[t] = << >>
             /\ fetched[t] = << >>
       /\ (envelope[t] /= << >> /\ envelope[t] /= EmptyEnvelope) =>
             /\ fetched[t] = <<envelope[t][1][1]>>
             /\ outcome[t] = "returned" => returned[t] = <<envelope[t][1][1]>>
       /\ outcome[t] = "IndexError" => envelope[t] = EmptyEnvelope

C13_Witness ==
    /\ envelope["t1"] = EmptyEnvelope
    /\ outcome["t1"] = "IndexError"
    /\ Fetches("t1") = 2

(* ------------------------------ deadline ------------------------------ *)
Advanced(t) == pc'[t] /= pc[t]
PollIssued(t) == Len(reqs'[t]) = Len(reqs[t]) + 1 /\ pc[t] = "poll"
TimeoutSeconds == (qradar.timeout.num * 60) \div qradar.timeout.den
Anchored(t) ==
    (pc[t] = "anchor" /\ Advanced(t)) =>
        /\ now >= submitted_at[t]
        /\ search_start'[t] = now
        /\ deadline'[t] = now + TimeoutSeconds
ExpiredMeansTimeout(t) ==
    (pc[t] = "loop" /\ Advanced(t)) =>
        pc'[t] = (IF now < deadline[t] THEN "poll" ELSE "timeout_delete")

\* C14 as stated: the deadline is the time the wait loop starts plus
\* timeout*60 seconds, every status request is issued at a clock time
\* strictly before it, and a loop check at or after it times out.
C14_PollsIssuedBeforeDeadline ==
    [][\A t \in Threads :
          /\ Anchored(t)
          /\ PollIssued(t) => now < deadline[t]
          /\ ExpiredMeansTimeout(t)]_vars

\* C14 as amended: the deadline is the time the wait loop starts plus
\* timeout*60 seconds, every status request follows a loop check that read a
\* clock time strictly before it, and a loop check at or after it times out
\* without another poll.
C14_PollsFollowPassedCheck ==
    [][\A t \in Threads :
          /\ Anchored(t)
          /\ PollIssued(t) => checked_at[t] < deadline[t]
          /\ (pc[t] = "loop" /\ Advanced(t)) => checked_at'[t] = now
          /\ ExpiredMeansTimeout(t)]_vars

C14_Witness ==
    /\ pc["t1"] = "timeout_delete"
    /\ search_start["t1"] > submitted_at["t1"]
    /\ deadline["t1"] = search_start["t1"] + 15
    /\ nonterminal["t1"] = 2
    /\ now = deadline["t1"]

\* C15 as stated: once a poll has returned COMPLETED (and every request gets
\* a response) the call ends with the rows or with the fetch-failed error.
C15_RowsOrFetchFailed ==
    \A t \in Threads :
       (status[t] = "COMPLETED" /\ Ended(t) /\ outcome[t] /= "RequestException") =>
          outcome[t] \in {"returned", "CouldNotLoadResults"}

\* C15 as amended: once a poll has returned COMPLETED the deadline is not
\* consulted again: a sleeping retry always goes on to the next results
\* request, the fetch-failed error is raised only when the attempts are used
\* up, and the call ends with the rows, the fetch-failed error, the
\* empty-envelope error or an exception of a request, never timed out.
C15_FetchIgnoresDeadline ==
    [][\A t \in Threads :
          /\ (pc[t] = "sleep_fetch" /\ Advanced(t)) => pc'[t] = "results"
          /\ status'[t] = "COMPLETED" =>
                /\ pc'[t] \in {"results", "sleep_fetch", "cleanup_delete", "done"}
                /\ outcome'[t] \in {"none", "returned", "CouldNotLoadResults",
                                    "IndexError", "RequestException"}
                /\ outcome'[t] = "CouldNotLoadResults" =>
                      Fetches(t)' = MaxAttempt + 2]_vars

C15_Witness ==
    /\ status["t1"] = "COMPLETED"
    /\ outcome["t1"] = "returned"
    /\ now > deadline["t1"]
    /\ Fetches("t1") = 3

(* --------------------------- request order ---------------------------- *)
Phase(r) == IF IsPost(r) THEN 1 ELSE IF IsStatus(r) THEN 2
            ELSE IF IsResults(r) THEN 3 ELSE 4

\* C16: the requests of a call are one POST, then status requests, then
\* results requests, then at most one DELETE as the last request; every
\* request after the POST addresses the job of the call; a step issues at
\* most one request; a call creates at most one job.
C16_RequestsPhaseOrdered ==
    [][\A t \in Threads :
          LET r == reqs'[t]
          IN /\ r /= << >> => IsPost(r[1])
             /\ Count(r, IsPost) <= 1
             /\ Count(r, IsDelete) <= 1
             /\ \A i \in 1..(Len(r) - 1) :
                   /\ Phase(r[i]) <= Phase(r[i + 1])
                   /\ ~IsDelete(r[i])
             /\ \A i \in 2..Len(r) : r[i].id = search_id'[t]
             /\ \/ r = reqs[t]
                \/ r = Append(reqs[t], r[Len(r)])
             /\ jobsCreated' <= Cardinality({u \in Threads : HasPosted(u)'})]_vars

C16_Witness ==
    /\ Len(reqs["t1"]) = 6
    /\ Polls("t1") = 2
    /\ Fetches("t1") = 2
    /\ IsDelete(reqs["t1"][6])
    /\ Ended("t1")

(* ------------------------------- auth --------------------------------- *)
HeaderValue(h, k) == LET i == CHOOSE i \in 1..Len(h) : h[i][1] = k IN h[i][2]
BasicAuth(h) == "username" \in Names(h) /\ "password" \in Names(h)
TokenAuth(h) == "SEC" \in Names(h)
ExactlyOneAuth(h) ==
    /\ BasicAuth(h) /= TokenAuth(h)
    /\ ("username" \in Names(h)) = ("password" \in Names(h))
    /\ \A i \in 1..Len(h) :
          h[i][1] \in {"username", "password", "SEC"} => Truthy(h[i][2])

\* C18: a constructed object has either the username and password headers
\* or the SEC header, never both and never neither, in its stored headers
\* and in every request; when a pair and a token are both given the headers
\* are the pair's; the auth headers never change after construction.
C18_ExactlyOneAuthVariant ==
    [][/\ ctor' = "ok" =>
             /\ ExactlyOneAuth(qradar'.headers)
             /\ \A t \in Threads : \A i \in 1..Len(reqs'[t]) :
                   ExactlyOneAuth(reqs'[t][i].headers)
             /\ supplied'.pair => BasicAuth(qradar'.headers)
             /\ ~supplied'.pair => TokenAuth(qradar'.headers)
       /\ (ctor = "running" /\ ctor' = "ok" /\ BasicAuth(qradar'.headers)) =>
             /\ HeaderValue(qradar'.headers, "username") = ctorArgs.username
             /\ HeaderValue(qradar'.headers, "password") = ctorArgs.password
       /\ (ctor = "running" /\ ctor' = "ok" /\ TokenAuth(qradar'.headers)) =>
             HeaderValue(qradar'.headers, "SEC") = ctorArgs.token
       /\ ctor = "ok" => qradar'.headers = qradar.headers]_vars

C18_Witness ==
    /\ ctor = "ok"
    /\ supplied = [pair |-> TRUE, token |-> TRUE]
    /\ BasicAuth(qradar.headers)
    /\ ~TokenAuth(qradar.headers)
    /\ Fetches("t1") = 1

(* ------------------------- interleaved calls -------------------------- *)
\* everything one call of search() holds: its locals and what it has sent
CallState(t) ==
    <<pc[t], search_id[t], submitted_at[t], search_start[t], deadline[t],
      status[t], attempt[t], wake[t], fetched[t], returned[t], outcome[t],
      reqs[t], delResp[t], post_status[t], nonterminal[t], search_args[t],
      query[t], checked_at[t], envelope[t]>>

HasContentType(h) == "Content-Type" \in Names(h)

\* C17: with two calls of search() interleaved on one object, no step
\* changes the object (console, proxy, timeout, flags, stored headers);
\* Content-Type is in the headers of the POST only, never in the stored
\* headers nor in a status, results or DELETE request, whose headers are the
\* stored ones; every request after a call's POST addresses the job that
\* POST created, and the two jobs differ; a step of one call (a response it
\* handles, its outcome included) leaves everything of the other call as
\* it was.
C17_InterleavedCallsIndependent ==
    [][/\ qradar' = qradar
       /\ ~HasContentType(qradar'.headers)
       /\ \A t \in Threads : \A i \in 1..Len(reqs'[t]) :
             LET r == reqs'[t][i]
             IN /\ HasContentType(r.headers) = IsPost(r)
                /\ ~IsPost(r) => /\ r.id = search_id'[t]
                                 /\ r.headers = qradar.headers
       /\ \A t \in Threads : \A u \in Threads \ {t} :
             /\ (JobCreated(t)' /\ JobCreated(u)') => search_id'[t] /= search_id'[u]
             /\ CallState(t)' /= CallState(t) => CallState(u)' = CallState(u)]_vars

C17_Witness ==
    /\ pc["t1"] = "sleep_poll"
    /\ Polls("t1") = 2
    /\ pc["t2"] = "sleep_fetch"
    /\ Fetches("t2") = 1
    /\ search_id["t1"] /= search_id["t2"]
    /\ ~HasContentType(qradar.headers)

(* ------------------------- non-terminal statuses ---------------------- *)
NonTerminalValues == {"RUNNING", "WAIT", None}

\* C20: a poll that returns any status other than COMPLETED, CANCELED and
\* ERROR (RUNNING, an unknown value, a missing field) puts the call to sleep
\* for 5 seconds without an outcome; the sleep is followed by the next loop
\* check; a call that ends after such a status ends on the timeout branch.
C20_OtherStatusesPollAgain ==
    [][\A t \in Threads :
          /\ (PollIssued(t) /\ status'[t] \in NonTerminalValues) =>
                /\ pc'[t] = "sleep_poll"
                /\ wake'[t] = now + 5
                /\ outcome'[t] = "none"
          /\ (pc[t] = "sleep_poll" /\ Advanced(t)) => pc'[t] = "loop"
          /\ (status'[t] \in NonTerminalValues /\ Ended(t)') =>
                /\ EndsWithOwnDelete(t)'
                /\ Fetches(t)' = 0
                /\ outcome'[t] \in {"SearchTimedOut", "RequestException"}]_vars

C20_Witness ==
    /\ status["t1"] = None
    /\ nonterminal["t1"] = 1
    /\ Polls("t1") = 1
    /\ pc["t1"] = "poll"

(* ----------------------------- termination ---------------------------- *)
\* C19: every call that was started ends (returns or raises); on the way
\* a poll is only made under a loop check before the deadline and no more
\* results requests are made than the attempts allow.
C19_EveryCallEnds ==
    /\ \A t \in Threads : (pc[t] = "post") ~> (pc[t] = "done")
    /\ [](\A t \in Threads :
            /\ pc[t] = "poll" => checked_at[t] < deadline[t]
            /\ Fetches(t) <= MaxAttempt + 2
            /\ Ended(t) => outcome[t] /= "none")

C19_Witness ==
    /\ Ended("t1")
    /\ outcome["t1"] = "CouldNotLoadResults"
    /\ nonterminal["t1"] = 2
    /\ now = 65
====
